---------------------------- MODULE Spec2Model ----------------------------
(***************************************************************************)
(* A model of src/agent/app.py: the interview agent's configuration       *)
(* resolution (resolve_prompt, resolve_opening_message,                   *)
(* apply_speech_style), its text normalisation for speech synthesis       *)
(* (normalize_tts_text, _strip_trailing_english, tts_node) and the        *)
(* transcript bridge of entrypoint (publish_chat and the two session      *)
(* event handlers).                                                        *)
(*                                                                         *)
(* A text is a sequence of characters.  A character is written as a short  *)
(* string: an ASCII character stands for itself, and                       *)
(*   "JA"   a kana or kanji character (U+3040-U+30FF, U+4E00-U+9FFF)       *)
(*   "MARU" the full-width period                U+3002                    *)
(*   "FQ"   the full-width question mark         U+FF1F                    *)
(*   "FE"   the full-width exclamation mark      U+FF01                    *)
(*   "ISP"  the ideographic space                U+3000                    *)
(*   "NL"   the line feed                                                  *)
(*   "BS"   the backslash                                                  *)
(*   "DQ"   the double quote                                               *)
(*   "MARK" the heading "# 発話ルール" of the speech style block, as one   *)
(*          symbol                                                         *)
(*   "RULES" the six rule lines of the speech style block, as one symbol   *)
(*   "DEFAULT" the text of DEFAULT_INTERVIEW_PROMPT, as one symbol         *)
(* and the words "prompt", "openingMessage", "role", "text", "candidate"   *)
(* and "interviewer", each as one symbol.  In Alpha, "a" stands for any    *)
(* Latin letter but s and S, which the patterns of the source name.        *)
(***************************************************************************)
EXTENDS Integers, Sequences, FiniteSets, TLC

VARIABLES
    fragment,        \* normalize_tts_text: the argument text
    normalized,      \* normalize_tts_text: the value returned
    npc,             \* "call" before normalize_tts_text ran, "done" after
    consumed,        \* tts_node: the chunks `async for` has taken from text
    chunk,           \* tts_node: the chunk taken and not yet yielded
    emitted,         \* tts_node: the values _normalized() has yielded
    tpc,             \* tts_node: the position of the generator _normalized()
    metadata,        \* ctx.job.metadata
    prompt,          \* entrypoint: the local prompt
    opening_message, \* entrypoint: the local opening_message
    applied,         \* how often apply_speech_style ran again on prompt
    cpc,             \* configuration resolution: the next call to make
    origin,          \* how the dispatcher wrote the metadata
    session,         \* the AgentSession: whether it has on, where on raises
    epc,             \* the position of the coroutine entrypoint
    handlers,        \* the event names session.on has a handler for
    warnings,        \* what logger.warning has logged, in order
    events,          \* the events the session has emitted, in order
    ready,           \* asyncio: the tasks created and not yet started
    inflight,        \* the _send tasks waiting in await publish_data(...)
    published,       \* the calls of publish_data, in order
    finished,        \* the _send tasks that returned; at: for a failed
                     \* send, the number of events emitted by then
    escaped,         \* the exceptions that left a handler or a task
    said             \* the texts session.say was called with

normVars   == <<fragment, normalized, npc>>
ttsVars    == <<consumed, chunk, emitted, tpc>>
cfgVars    == <<metadata, prompt, opening_message, applied, cpc, origin>>
bridgeVars == <<session, epc, handlers, warnings, events, ready, inflight, published,
                finished, escaped, said>>
vars       == <<fragment, normalized, npc, consumed, chunk, emitted, tpc,
                metadata, prompt, opening_message, applied, cpc, origin,
                session, epc, handlers, warnings, events, ready, inflight,
                published, finished, escaped, said>>

\* Python's None where a text may stand: a text no program text equals.
None == <<"None">>

-----------------------------------------------------------------------------
(* Bounds of the model.                                                    *)

MaxFragLen   == 3   \* every fragment of at most this length is an input
MaxRun       == 6   \* longest trailing run appended to a structured input
MaxFragments == 3   \* most chunks the text stream of tts_node delivers
MaxMetaLen   == 3   \* every metadata text of at most this length is an input
MaxFields    == 2   \* most fields of a JSON object written as metadata
MaxApply     == 2   \* most further calls of apply_speech_style on prompt
MaxEvents    == 2   \* most events the session emits

-----------------------------------------------------------------------------
(* Characters and Python's str helpers.                                    *)

Japanese   == {"JA"}                      \* [\u3040-\u30ff\u4e00-\u9fff]
Marks      == {"MARU", "FE", "FQ"}        \* [。！？]
Alpha      == {"a", "s", "S"}             \* [A-Za-z]
Digit      == {"1"}                       \* [0-9]
Whitespace == {" ", "NL", "ISP"}          \* str.isspace

Max(S) == CHOOSE x \in S : \A y \in S : y <= x
Min(S) == CHOOSE x \in S : \A y \in S : x <= y

\* All texts over the characters C of length at most n.
Texts(C, n) == UNION {[1..k -> C] : k \in 0..n}

Solid(t) == {i \in 1..Len(t) : t[i] \notin Whitespace}

\* str.strip()
Strip(t) == IF Solid(t) = {} THEN <<>> ELSE SubSeq(t, Min(Solid(t)), Max(Solid(t)))

\* str.rstrip()
RStrip(t) == IF Solid(t) = {} THEN <<>> ELSE SubSeq(t, 1, Max(Solid(t)))

\* text.replace("?", "？").replace("!", "！")
ReplaceMarks(t) ==
    [i \in 1..Len(t) |-> IF t[i] = "?" THEN "FQ" ELSE IF t[i] = "!" THEN "FE" ELSE t[i]]

-----------------------------------------------------------------------------
(* The regular expressions of _strip_trailing_english and                  *)
(* normalize_tts_text, as Python's re compiles the raw string literals of  *)
(* the source.  In a raw string \\s is two backslashes and an s: the       *)
(* pattern then asks for one backslash character followed by the letter s, *)
(* so \\s* is a backslash and any number of s; inside a character class    *)
(* \\s adds the backslash and the letter s to the class.                   *)

\* The positions p >= j such that t[j..p-1] lies in class C: where X* may stop.
Star(t, j, C) == {p \in j..(Len(t) + 1) : \A m \in j..(p - 1) : t[m] \in C}

\* $ without re.M: the end of the text, or just before a final line feed.
AtEnd(t, p) == p = Len(t) + 1 \/ (p = Len(t) /\ t[p] = "NL")

\* \\s*$ from position p: a backslash, any number of s, the end.
BackslashSEnd(t, p) ==
    /\ p <= Len(t)
    /\ t[p] = "BS"
    /\ \E e \in Star(t, p + 1, {"s"}) : AtEnd(t, e)

\* [A-Za-z0-9\\s,.'\"!?-]
TailClass == Alpha \cup Digit \cup {"BS", ",", ".", "'", "DQ", "!", "?", "-"}

\* [A-Za-z0-9'\"!?-]
GluedClass == Alpha \cup Digit \cup {"'", "DQ", "!", "?", "-"}

\* [\\s　]
FallbackGap == {"BS", "s", "ISP"}

\* [A-Za-z] C{n,} \\s*$ from position k.
RunToEnd(t, k, C, n) ==
    /\ k <= Len(t)
    /\ t[k] \in Alpha
    /\ \E m \in Star(t, k + 1, C) : m - (k + 1) >= n /\ BackslashSEnd(t, m)

\* tail_pattern after group 1: \\s*([A-Za-z][...]{4,})\\s*$ from position j.
TailRest(t, j) ==
    /\ j <= Len(t)
    /\ t[j] = "BS"
    /\ \E k \in Star(t, j + 1, {"s"}) : RunToEnd(t, k, TailClass, 4)

\* fallback_pattern after group 1: [\\s　]+([A-Za-z][...]{6,})\\s*$
FallbackRest(t, j) ==
    \E k \in Star(t, j, FallbackGap) : k > j /\ RunToEnd(t, k, TailClass, 6)

\* glued_pattern after group 1: ([A-Za-z][...]{4,})\\s*$
GluedRest(t, j) == RunToEnd(t, j, GluedClass, 4)

\* The ends i of group 1, (.*?[。！？]), for which tail_pattern matches.
TailEnds(t) == {i \in 1..Len(t) : t[i] \in Marks /\ TailRest(t, i + 1)}

\* The ends i of group 1, (.*?), for which fallback_pattern matches.
FallbackEnds(t) == {i \in 0..Len(t) : FallbackRest(t, i + 1)}

\* The ends i of group 1, (.*?[\u3040-...]), for which glued_pattern matches.
GluedEnds(t) == {i \in 1..Len(t) : t[i] \in Japanese /\ GluedRest(t, i + 1)}

\* _strip_trailing_english: the lazy .*? gives group 1 its shortest end.
StripTrailingEnglish(t) ==
    IF \A i \in 1..Len(t) : t[i] \notin Japanese THEN t
    ELSE IF TailEnds(t) # {} THEN SubSeq(t, 1, Min(TailEnds(t)))
    ELSE IF FallbackEnds(t) # {} THEN RStrip(SubSeq(t, 1, Min(FallbackEnds(t))))
    ELSE IF GluedEnds(t) # {} THEN RStrip(SubSeq(t, 1, Min(GluedEnds(t))))
    ELSE t

\* re.sub(r"([。！？])(?=\\S)", r"\\1\n", t) from position i on: a mark that a
\* backslash and an S follow is replaced by a backslash, a 1 and a line feed.
RECURSIVE BreakAfterMarksFrom(_, _)
BreakAfterMarksFrom(t, i) ==
    IF i > Len(t) THEN <<>>
    ELSE IF t[i] \in Marks /\ i + 2 <= Len(t) /\ t[i + 1] = "BS" /\ t[i + 2] = "S"
         THEN <<"BS", "1", "NL">> \o BreakAfterMarksFrom(t, i + 1)
         ELSE <<t[i]>> \o BreakAfterMarksFrom(t, i + 1)

BreakAfterMarks(t) == BreakAfterMarksFrom(t, 1)

\* re.sub(r"\n{3,}", "\n\n", t) from position i on.
RECURSIVE CollapseBreaksFrom(_, _)
CollapseBreaksFrom(t, i) ==
    IF i > Len(t) THEN <<>>
    ELSE IF t[i] # "NL" THEN <<t[i]>> \o CollapseBreaksFrom(t, i + 1)
    ELSE LET e == Max(Star(t, i, {"NL"}))
         IN  (IF e - i >= 3 THEN <<"NL", "NL">> ELSE SubSeq(t, i, e - 1))
                 \o CollapseBreaksFrom(t, e)

CollapseBreaks(t) == CollapseBreaksFrom(t, 1)

\* normalize_tts_text
normalize_tts_text(text) ==
    IF text = <<>> THEN text
    ELSE CollapseBreaks(BreakAfterMarks(StripTrailingEnglish(ReplaceMarks(text))))


-----------------------------------------------------------------------------
(* json.loads on the texts the model writes: objects with string keys,     *)
(* strings with the escapes \", \\ and \n, and integers.  A value is a record   *)
(* [type, text, items]: "str" with its text, "num" with its digits, "obj"  *)
(* with its items [key, value] in written order.                           *)

JsonWs == {" ", "NL"}

JStr(t)  == [type |-> "str", text |-> t, items |-> <<>>]
JNum(t)  == [type |-> "num", text |-> t, items |-> <<>>]
JObj(is) == [type |-> "obj", text |-> <<>>, items |-> is]
JNone    == [type |-> "none", text |-> <<>>, items |-> <<>>]

ScanFail == [ok |-> FALSE, value |-> JNone, next |-> 0]
ScanOk(v, n) == [ok |-> TRUE, value |-> v, next |-> n]

\* The first position from i on that holds no JSON whitespace.
SkipWs(t, i) == Max(Star(t, i, JsonWs))

\* The string whose opening quote is just before position i.
RECURSIVE ScanString(_, _, _)
ScanString(t, i, acc) ==
    IF i > Len(t) THEN ScanFail
    ELSE IF t[i] = "DQ" THEN ScanOk(JStr(acc), i + 1)
    ELSE IF t[i] = "BS"
         THEN IF i + 1 <= Len(t) /\ t[i + 1] \in {"DQ", "BS"}
              THEN ScanString(t, i + 2, Append(acc, t[i + 1]))
              ELSE IF i + 1 <= Len(t) /\ t[i + 1] = "n"
              THEN ScanString(t, i + 2, Append(acc, "NL"))
              ELSE ScanFail
    ELSE IF t[i] = "NL" THEN ScanFail
    ELSE ScanString(t, i + 1, Append(acc, t[i]))

RECURSIVE ScanValue(_, _)
RECURSIVE ScanMembers(_, _, _)

\* The value that starts at position i.
ScanValue(t, i) ==
    IF i > Len(t) THEN ScanFail
    ELSE IF t[i] = "DQ" THEN ScanString(t, i + 1, <<>>)
    ELSE IF t[i] \in Digit
         THEN LET e == Max(Star(t, i, Digit))
              IN  ScanOk(JNum(SubSeq(t, i, e - 1)), e)
    ELSE IF t[i] = "{"
         THEN LET j == SkipWs(t, i + 1)
              IN  IF j <= Len(t) /\ t[j] = "}" THEN ScanOk(JObj(<<>>), j + 1)
                  ELSE IF j <= Len(t) /\ t[j] = "DQ" THEN ScanMembers(t, j, <<>>)
                  ELSE ScanFail
    ELSE ScanFail

\* The members of an object from the opening quote of a key at position j.
ScanMembers(t, j, items) ==
    LET k == ScanString(t, j + 1, <<>>)
    IN  IF ~k.ok THEN ScanFail
        ELSE
        LET c == SkipWs(t, k.next)
        IN  IF c > Len(t) \/ t[c] # ":" THEN ScanFail
            ELSE
            LET v == ScanValue(t, SkipWs(t, c + 1))
            IN  IF ~v.ok THEN ScanFail
                ELSE
                LET n   == SkipWs(t, v.next)
                    its == Append(items, [key |-> k.value.text, value |-> v.value])
                IN  IF n > Len(t) THEN ScanFail
                    ELSE IF t[n] = "}" THEN ScanOk(JObj(its), n + 1)
                    ELSE IF t[n] = ","
                         THEN LET q == SkipWs(t, n + 1)
                              IN  IF q <= Len(t) /\ t[q] = "DQ"
                                  THEN ScanMembers(t, q, its)
                                  ELSE ScanFail
                    ELSE ScanFail

\* json.loads(t): [raised, value], raised "JSONDecodeError" or "no".
json_loads(t) ==
    LET v == ScanValue(t, SkipWs(t, 1))
    IN  IF v.ok /\ SkipWs(t, v.next) = Len(t) + 1
        THEN [raised |-> "no", value |-> v.value]
        ELSE [raised |-> "JSONDecodeError", value |-> JNone]

\* dict.get(key): the value of the last item written with the key, or None.
DictGet(obj, key) ==
    LET at == {i \in 1..Len(obj.items) : obj.items[i].key = key}
    IN  IF at = {} THEN JNone ELSE obj.items[Max(at)].value

-----------------------------------------------------------------------------
(* apply_speech_style, resolve_prompt, resolve_opening_message.            *)

DEFAULT_INTERVIEW_PROMPT == <<"DEFAULT">>
SPEECH_STYLE_SUFFIX      == <<"NL", "NL", "MARK", "NL", "RULES">>

Contains(t, c) == \E i \in 1..Len(t) : t[i] = c

\* apply_speech_style without its test for the heading.
apply_speech_style_always(p) == Strip(p) \o SPEECH_STYLE_SUFFIX

apply_speech_style(p) ==
    IF Contains(p, "MARK") THEN p ELSE Strip(p) \o SPEECH_STYLE_SUFFIX

\* try: parsed = json.loads(metadata) / except json.JSONDecodeError: parsed = None
Parsed(m) ==
    LET r == json_loads(m)
    IN  IF r.raised = "JSONDecodeError" THEN JNone ELSE r.value

\* isinstance(parsed, dict), parsed.get(key) is a str and its strip() is not empty
UsableField(m, key) ==
    /\ Parsed(m).type = "obj"
    /\ DictGet(Parsed(m), key).type = "str"
    /\ Strip(DictGet(Parsed(m), key).text) # <<>>

\* resolve_prompt that tries the raw text before the prompt field.
resolve_prompt_raw_first(m) ==
    IF m # <<>> /\ Strip(m) # <<>> THEN apply_speech_style(Strip(m))
    ELSE IF m # <<>> /\ UsableField(m, <<"prompt">>)
         THEN apply_speech_style(Strip(DictGet(Parsed(m), <<"prompt">>).text))
    ELSE apply_speech_style(DEFAULT_INTERVIEW_PROMPT)

resolve_prompt(m) ==
    IF m # <<>> /\ UsableField(m, <<"prompt">>)
    THEN apply_speech_style(Strip(DictGet(Parsed(m), <<"prompt">>).text))
    ELSE IF m # <<>> /\ Strip(m) # <<>> THEN apply_speech_style(Strip(m))
    ELSE apply_speech_style(DEFAULT_INTERVIEW_PROMPT)

\* resolve_opening_message that falls back to the raw text as resolve_prompt does.
resolve_opening_message_raw(m) ==
    IF m = <<>> THEN None
    ELSE IF json_loads(m).raised = "JSONDecodeError"
         THEN (IF Strip(m) # <<>> THEN Strip(m) ELSE None)
    ELSE IF UsableField(m, <<"openingMessage">>)
         THEN Strip(DictGet(Parsed(m), <<"openingMessage">>).text)
    ELSE None

resolve_opening_message(m) ==
    IF m = <<>> THEN None
    ELSE IF json_loads(m).raised = "JSONDecodeError" THEN None
    ELSE IF UsableField(m, <<"openingMessage">>)
         THEN Strip(DictGet(Parsed(m), <<"openingMessage">>).text)
    ELSE None

-----------------------------------------------------------------------------
(* The variables of the parts a specification leaves alone.                *)

NormIdle == fragment = <<>> /\ normalized = None /\ npc = "idle"

TtsIdle == consumed = <<>> /\ chunk = None /\ emitted = <<>> /\ tpc = "idle"

NoOrigin == [kind |-> "none", items |-> <<>>, spaced |-> FALSE, damage |-> "none"]

CfgIdle ==
    /\ metadata = <<>>
    /\ prompt = None
    /\ opening_message = None
    /\ applied = 0
    /\ cpc = "idle"
    /\ origin = NoOrigin

BridgeIdle ==
    /\ session = [has_on |-> FALSE, on_raises |-> {}]
    /\ epc = "idle"
    /\ handlers = {}
    /\ warnings = <<>>
    /\ events = <<>>
    /\ ready = <<>>
    /\ inflight = {}
    /\ published = <<>>
    /\ finished = {}
    /\ escaped = {}
    /\ said = <<>>

-----------------------------------------------------------------------------
(* normalize_tts_text on one fragment.                                     *)

NormChars == {"JA", "MARU", "?", "!", "a", "s", "S", " ", "BS", "NL"}

\* Fragments longer than MaxFragLen: a head, a gap, a trailing run that a
\* letter starts, and an end.
Heads == {<<"JA", "MARU">>, <<"JA", "?">>, <<"JA">>, <<"a", "MARU">>}
Gaps  == {<<>>, <<" ">>, <<"BS">>, <<"ISP">>}
Runs  == {r \in Texts({"a", " "}, MaxRun) : Len(r) >= 4 /\ r[1] = "a"}
Ends  == {<<>>, <<" ">>, <<"BS">>, <<"BS", "s">>, <<"BS", "NL">>}

FragmentInputs ==
    Texts(NormChars, MaxFragLen)
        \cup {h \o g \o r \o e : h \in Heads, g \in Gaps, r \in Runs, e \in Ends}

NormInit ==
    /\ fragment \in FragmentInputs
    /\ normalized = None
    /\ npc = "call"
    /\ TtsIdle /\ CfgIdle /\ BridgeIdle

CallNormalize ==
    /\ npc = "call"
    /\ normalized' = normalize_tts_text(fragment)
    /\ npc' = "done"
    /\ UNCHANGED <<fragment, ttsVars, cfgVars, bridgeVars>>

NormNext == CallNormalize

SpecNormalize == NormInit /\ [][NormNext]_vars

\* The position i holds a mark after which only optional whitespace and a
\* run of five or more Latin letters, digits, whitespace and , . ' " - that a
\* letter starts follow, up to the end of t.
EnglishRun == Alpha \cup Digit \cup Whitespace \cup {",", ".", "'", "DQ", "-"}

TrailingEnglishAfter(t, i) ==
    /\ t[i] \in Marks
    /\ \E k \in Star(t, i + 1, Whitespace) :
          /\ k <= Len(t)
          /\ t[k] \in Alpha
          /\ Len(t) - k + 1 >= 5
          /\ \A m \in k..Len(t) : t[m] \in EnglishRun

DropBreaks(t) == SelectSeq(t, LAMBDA c : c # "NL")

\* C4: a fragment with a kana or kanji character that ends in a mark,
\* optional whitespace and a run of 5 or more Latin characters is normalized
\* to its part up to and including that mark (line breaks aside).
C4_TrailingEnglishDropped ==
    (/\ npc = "done"
     /\ \E j \in 1..Len(fragment) : fragment[j] \in Japanese
     /\ \E i \in 1..Len(fragment) : TrailingEnglishAfter(fragment, i))
    => \E i \in 1..Len(fragment) :
          /\ TrailingEnglishAfter(fragment, i)
          /\ DropBreaks(normalized) = DropBreaks(ReplaceMarks(SubSeq(fragment, 1, i)))

\* C5: in the value normalize_tts_text returns for a non-empty fragment no
\* mark is directly followed by a character that is not whitespace.
C5_BreakAfterEveryMark ==
    (npc = "done" /\ fragment # <<>>)
    => \A i \in 1..(Len(normalized) - 1) :
          normalized[i] \in Marks => normalized[i + 1] \in Whitespace

-----------------------------------------------------------------------------
(* Configuration resolution as entrypoint runs it: resolve_prompt, then    *)
(* resolve_opening_message, on the metadata of the job.                    *)

MetaChars == {"{", "}", "DQ", " ", "x", "1", "MARK", "ISP", "NL"}

\* The values and fields of the objects a dispatcher writes.
FieldKeys   == {<<"prompt">>, <<"openingMessage">>, <<"x">>}
FieldValues == { JStr(<<" ", "x", " ">>), JStr(<<" ">>), JStr(<<"y", "MARK">>),
                 JNum(<<"1">>), JObj(<<>>) }
Fields      == [key : FieldKeys, value : FieldValues]
FieldLists  == UNION {[1..k -> Fields] : k \in 0..MaxFields}

\* The text of a string between its quotes, as json.dumps writes it.
RECURSIVE Escape(_)
Escape(t) ==
    IF t = <<>> THEN <<>>
    ELSE (IF Head(t) \in {"DQ", "BS"} THEN <<"BS", Head(t)>>
          ELSE IF Head(t) = "NL" THEN <<"BS", "n">>
          ELSE <<Head(t)>>) \o Escape(Tail(t))

\* json.dumps of a value: with separators (",", ":"), or with the default
\* separators (", ", ": ") when spaced.
RECURSIVE Dump(_, _)
RECURSIVE DumpItems(_, _, _)
Dump(v, spaced) ==
    IF v.type = "str" THEN <<"DQ">> \o Escape(v.text) \o <<"DQ">>
    ELSE IF v.type = "num" THEN v.text
    ELSE <<"{">> \o DumpItems(v.items, 1, spaced) \o <<"}">>

DumpItems(items, i, spaced) ==
    IF i > Len(items) THEN <<>>
    ELSE (IF i > 1 THEN (IF spaced THEN <<",", " ">> ELSE <<",">>) ELSE <<>>)
         \o <<"DQ">> \o Escape(items[i].key) \o <<"DQ">>
         \o (IF spaced THEN <<":", " ">> ELSE <<":">>)
         \o Dump(items[i].value, spaced)
         \o DumpItems(items, i + 1, spaced)

\* The metadata text of an origin: a raw text, or an object written whole
\* ("none"), cut short by its last character ("cut"), or with text after it
\* ("extra").
Written(o) ==
    LET whole == Dump(JObj(o.items), o.spaced)
        body  == IF o.damage = "cut" THEN SubSeq(whole, 1, Len(whole) - 1)
                 ELSE IF o.damage = "extra" THEN whole \o <<"x">>
                 ELSE whole
    IN  IF o.spaced THEN <<" ">> \o body \o <<"NL">> ELSE body

Origins ==
    [kind : {"json"}, items : FieldLists, spaced : BOOLEAN,
     damage : {"none", "cut", "extra"}]

RawOrigin == [kind |-> "raw", items |-> <<>>, spaced |-> FALSE, damage |-> "none"]

CfgInit ==
    /\ \/ /\ origin = RawOrigin
          /\ metadata \in Texts(MetaChars, MaxMetaLen)
       \/ /\ origin \in Origins
          /\ metadata = Written(origin)
    /\ prompt = None
    /\ opening_message = None
    /\ applied = 0
    /\ cpc = "prompt"
    /\ NormIdle /\ TtsIdle /\ BridgeIdle

\* prompt = resolve_prompt(ctx)
CallResolvePrompt ==
    /\ cpc = "prompt"
    /\ prompt' = resolve_prompt(metadata)
    /\ cpc' = "opening"
    /\ UNCHANGED <<metadata, opening_message, applied, origin,
                   normVars, ttsVars, bridgeVars>>

\* opening_message = resolve_opening_message(ctx)
CallResolveOpeningMessage ==
    /\ cpc = "opening"
    /\ opening_message' = resolve_opening_message(metadata)
    /\ cpc' = "resolved"
    /\ UNCHANGED <<metadata, prompt, applied, origin, normVars, ttsVars, bridgeVars>>

\* A caller passes the prompt through apply_speech_style once more.
CallApplySpeechStyle ==
    /\ cpc = "resolved"
    /\ applied < MaxApply
    /\ prompt' = apply_speech_style(prompt)
    /\ applied' = applied + 1
    /\ UNCHANGED <<metadata, opening_message, cpc, origin,
                   normVars, ttsVars, bridgeVars>>

CfgNext == CallResolvePrompt \/ CallResolveOpeningMessage \/ CallApplySpeechStyle

SpecConfig == CfgInit /\ [][CfgNext]_vars

Styled(t) == Strip(t) \o SPEECH_STYLE_SUFFIX

\* The string value the dispatcher wrote last under the key, or None.
WrittenField(o, key) ==
    LET at == {i \in 1..Len(o.items) : o.items[i].key = key}
    IN  IF at = {} THEN JNone ELSE o.items[Max(at)].value

WrittenUsable(o, key) ==
    /\ o.kind = "json"
    /\ o.damage = "none"
    /\ WrittenField(o, key).type = "str"
    /\ \E i \in 1..Len(WrittenField(o, key).text) :
          WrittenField(o, key).text[i] \notin Whitespace

\* The text resolve_prompt is to pick: the trimmed prompt field of a JSON
\* object, else the trimmed metadata, else the default prompt.
PromptSource(m) ==
    IF UsableField(m, <<"prompt">>) THEN Strip(DictGet(Parsed(m), <<"prompt">>).text)
    ELSE IF Strip(m) # <<>> THEN Strip(m)
    ELSE DEFAULT_INTERVIEW_PROMPT

Count(t, c) == Cardinality({i \in 1..Len(t) : t[i] = c})

\* C8 as claimed: the heading of the style block is in the prompt at most once.
C8_MarkerAtMostOnce == (cpc # "prompt") => Count(prompt, "MARK") <= 1

\* C8 as amended: the prompt holds the heading once when the text
\* resolve_prompt picks holds it at most once, and otherwise as often as that
\* text does; further calls of apply_speech_style leave the prompt as it is.
C8_MarkerNotMultiplied ==
    (cpc # "prompt")
    => /\ Count(prompt, "MARK") =
             (IF Count(PromptSource(metadata), "MARK") = 0 THEN 1
              ELSE Count(PromptSource(metadata), "MARK"))
       /\ prompt = resolve_prompt(metadata)

\* apply_speech_style ran twice more on a prompt built from text without the
\* heading.
C8_Witness ==
    /\ cpc = "resolved"
    /\ applied >= 2
    /\ Count(metadata, "MARK") = 0
    /\ Count(prompt, "MARK") = 1
    /\ metadata # <<>>

-----------------------------------------------------------------------------
(* DefaultInterviewAgent.tts_node: the generator _normalized() between the *)
(* text stream and the default tts node.                                   *)

StreamFragments ==
    { <<>>, <<"JA", "?">>, <<"JA", "MARU", "BS", "S">>, <<"NL", "NL", "NL">>,
      <<"JA", "a", "a", "a", "a", "a", "BS">>, <<" ">> }

TtsInit ==
    /\ consumed = <<>>
    /\ chunk = None
    /\ emitted = <<>>
    /\ tpc = "anext"
    /\ NormIdle /\ CfgIdle /\ BridgeIdle

\* async for chunk in text: the stream delivers its next chunk.
TakeChunk ==
    /\ tpc = "anext"
    /\ Len(consumed) < MaxFragments
    /\ \E c \in StreamFragments :
          /\ consumed' = Append(consumed, c)
          /\ chunk' = c
    /\ tpc' = "yield"
    /\ UNCHANGED <<emitted, normVars, cfgVars, bridgeVars>>

\* A generator that keeps an empty value to itself instead of yielding it.
YieldChunkUnlessEmpty ==
    /\ tpc = "yield"
    /\ emitted' = IF normalize_tts_text(chunk) = <<>> THEN emitted
                  ELSE Append(emitted, normalize_tts_text(chunk))
    /\ chunk' = None
    /\ tpc' = "suspended"
    /\ UNCHANGED <<consumed, normVars, cfgVars, bridgeVars>>

\* yield normalize_tts_text(chunk): the generator hands the value over and
\* stays suspended at the yield.
YieldChunk ==
    /\ tpc = "yield"
    /\ emitted' = Append(emitted, normalize_tts_text(chunk))
    /\ chunk' = None
    /\ tpc' = "suspended"
    /\ UNCHANGED <<consumed, normVars, cfgVars, bridgeVars>>

\* The tts node asks for the next value: the generator resumes into async for.
ResumeGenerator ==
    /\ tpc = "suspended"
    /\ tpc' = "anext"
    /\ UNCHANGED <<consumed, chunk, emitted, normVars, cfgVars, bridgeVars>>

\* The text stream ends: async for leaves the loop and the generator returns.
EndOfText ==
    /\ tpc = "anext"
    /\ tpc' = "done"
    /\ UNCHANGED <<consumed, chunk, emitted, normVars, cfgVars, bridgeVars>>

\* The tts node closes the generator at one of its suspension points.
CloseGenerator ==
    /\ tpc \in {"anext", "suspended"}
    /\ tpc' = "closed"
    /\ UNCHANGED <<consumed, chunk, emitted, normVars, cfgVars, bridgeVars>>

TtsNext == TakeChunk \/ YieldChunk \/ ResumeGenerator \/ EndOfText \/ CloseGenerator

SpecTts == TtsInit /\ [][TtsNext]_vars

\* C3: the values yielded are, in order, normalize_tts_text of the chunks
\* taken, one for one; at most the chunk just taken is not yet yielded, and
\* none is outstanding while the generator is suspended or has ended.
C3_FragmentsInOrder ==
    /\ Len(emitted) <= Len(consumed)
    /\ Len(consumed) <= Len(emitted) + 1
    /\ \A i \in 1..Len(emitted) : emitted[i] = normalize_tts_text(consumed[i])
    /\ (tpc # "yield") => (Len(emitted) = Len(consumed) /\ chunk = None)
    /\ (tpc = "yield") => (Len(consumed) = Len(emitted) + 1
                            /\ chunk = consumed[Len(consumed)])

\* The stream ended after two or more chunks, an empty one and a rewritten
\* one among them.
C3_Witness ==
    /\ tpc = "done"
    /\ Len(emitted) >= 2
    /\ \E i \in 1..Len(consumed) : consumed[i] = <<>>
    /\ \E i \in 1..Len(consumed) : emitted[i] # consumed[i]

-----------------------------------------------------------------------------
(* entrypoint and the transcript bridge.  asyncio runs the tasks it is     *)
(* given in the order of their creation: ready is its queue.               *)

EventNames == {"user_input_transcribed", "conversation_item_added"}

\* A message handed to publish_chat: a str, or an object with the str
\* attributes it has (None for an attribute that is missing or no str) and
\* its str() text, or None.
StrMsg(t) == [kind |-> "str", text |-> t, content |-> None, message |-> None, str |-> None]
ObjMsg(t, c, g, r) == [kind |-> "obj", text |-> t, content |-> c, message |-> g, str |-> r]
NoneMsg == [kind |-> "none", text |-> None, content |-> None, message |-> None, str |-> None]

\* The events a session emits: transcripts, final or not, and added items.
UserEvents ==
    { [name |-> "user_input_transcribed", is_final |-> f, role |-> "", message |-> g] :
        f \in BOOLEAN,
        g \in {StrMsg(<<" ", "JA", " ">>), StrMsg(<<" ">>),
               ObjMsg(None, <<"x", "NL">>, None, <<"r">>)} }
    \ { [name |-> "user_input_transcribed", is_final |-> FALSE, role |-> "", message |-> g] :
          g \in {StrMsg(<<" ">>), ObjMsg(None, <<"x", "NL">>, None, <<"r">>)} }

ItemEvents ==
    { [name |-> "conversation_item_added", is_final |-> FALSE, role |-> "assistant",
       message |-> g] : g \in {StrMsg(<<"JA", "DQ">>), StrMsg(<<>>), NoneMsg} }
    \cup { [name |-> "conversation_item_added", is_final |-> FALSE, role |-> "user",
            message |-> StrMsg(<<"x">>)] }

BridgeMetadata ==
    { <<>>,
      Written([kind |-> "json", spaced |-> TRUE, damage |-> "none",
               items |-> <<[key |-> <<"openingMessage">>,
                            value |-> JStr(<<" ", "x", " ">>)]>>]) }

\* A session without on, and sessions whose on raises for no event name or
\* for one.
Sessions ==
    {[has_on |-> TRUE, on_raises |-> r] : r \in {{}} \cup {{n} : n \in EventNames}}
        \cup {[has_on |-> FALSE, on_raises |-> {}]}

BridgeInit ==
    /\ session \in Sessions
    /\ metadata \in BridgeMetadata
    /\ epc = "dispatched"
    /\ handlers = {}
    /\ warnings = <<>>
    /\ events = <<>>
    /\ ready = <<>>
    /\ inflight = {}
    /\ published = <<>>
    /\ finished = {}
    /\ escaped = {}
    /\ said = <<>>
    /\ prompt = None /\ opening_message = None /\ applied = 0
    /\ cpc = "idle" /\ origin = NoOrigin
    /\ NormIdle /\ TtsIdle

\* extract_text
extract_text(message) ==
    IF message.kind = "str" THEN message.text
    ELSE IF message.text # None THEN message.text
    ELSE IF message.content # None THEN message.content
    ELSE IF message.message # None THEN message.message
    ELSE message.str

\* json.dumps({"role": role, "text": text}, ensure_ascii=False).encode("utf-8")
Payload(role, text) ==
    Dump(JObj(<< [key |-> <<"role">>, value |-> JStr(<<role>>)],
                 [key |-> <<"text">>, value |-> JStr(text)] >>), TRUE)

\* asyncio.create_task that runs the new task before the waiting ones.
create_task_first(q, task) == <<task>> \o q

\* asyncio.create_task(_send()): the task joins the end of the queue.
create_task(q, task) == Append(q, task)

\* publish_chat that sends the text as it comes.
publish_chat_untrimmed(role, message, i, q) ==
    create_task(q, [ev |-> i, payload |-> Payload(role, extract_text(message))])

\* publish_chat for the i-th event: the queue of tasks it leaves.
publish_chat(role, message, i, q) ==
    LET text == Strip(extract_text(message))
    IN  IF text = <<>> THEN q
        ELSE create_task(q, [ev |-> i, payload |-> Payload(role, text)])

\* on_user_transcribed
on_user_transcribed(ev, i, q) ==
    IF ev.is_final THEN publish_chat("candidate", ev.message, i, q) ELSE q

\* on_conversation_item_added: publish_chat("interviewer", text or "")
on_conversation_item_added(ev, i, q) ==
    IF ev.role = "assistant"
    THEN publish_chat("interviewer",
                      IF ev.message.kind = "none" \/ ev.message.text = <<>>
                      THEN StrMsg(<<>>) ELSE ev.message, i, q)
    ELSE q

\* entrypoint up to await session.start(...): the handlers are registered
\* if the session has on, until an on raises; the prompt and the opening
\* message are resolved.
EntrypointSetup ==
    /\ epc = "dispatched"
    /\ handlers' =
          IF ~session.has_on \/ "user_input_transcribed" \in session.on_raises THEN {}
          ELSE IF "conversation_item_added" \in session.on_raises
               THEN {"user_input_transcribed"}
          ELSE EventNames
    /\ warnings' =
          IF session.has_on /\ session.on_raises # {}
          THEN Append(warnings, "Failed to register transcript handlers")
          ELSE warnings
    /\ prompt' = resolve_prompt(metadata)
    /\ opening_message' = resolve_opening_message(metadata)
    /\ epc' = "starting"
    /\ UNCHANGED <<session, metadata, applied, cpc, origin, events, ready, inflight,
                   published, finished, escaped, said, normVars, ttsVars>>

\* await session.start(...) returns; session.say is called when there is an
\* opening message.
SessionStarted ==
    /\ epc = "starting"
    /\ IF opening_message # None /\ opening_message # <<>>
       THEN epc' = "saying" /\ said' = Append(said, opening_message)
       ELSE epc' = "done" /\ said' = said
    /\ UNCHANGED <<session, handlers, warnings, events, ready, inflight, published,
                   finished, escaped, cfgVars, normVars, ttsVars>>

\* await session.start(...) raises: the exception leaves entrypoint.
SessionStartRaises ==
    /\ epc = "starting"
    /\ epc' = "raised"
    /\ UNCHANGED <<session, handlers, warnings, events, ready, inflight, published,
                   finished, escaped, said, cfgVars, normVars, ttsVars>>

\* await session.say(opening_message) returns.
SayReturns ==
    /\ epc = "saying"
    /\ epc' = "done"
    /\ UNCHANGED <<session, handlers, warnings, events, ready, inflight, published,
                   finished, escaped, said, cfgVars, normVars, ttsVars>>

\* await session.say(opening_message) raises: caught and logged.
SayRaises ==
    /\ epc = "saying"
    /\ warnings' = Append(warnings, "Failed to send opening message")
    /\ epc' = "done"
    /\ UNCHANGED <<session, handlers, events, ready, inflight, published,
                   finished, escaped, said, cfgVars, normVars, ttsVars>>

Running == epc \in {"starting", "saying", "done"}

\* The session emits user_input_transcribed: on_user_transcribed runs to its
\* return if it is registered.
EmitUserTranscribed ==
    /\ Running
    /\ Len(events) < MaxEvents
    /\ \E e \in UserEvents :
          /\ events' = Append(events, e)
          /\ ready' = IF e.name \in handlers
                      THEN on_user_transcribed(e, Len(events) + 1, ready)
                      ELSE ready
    /\ UNCHANGED <<session, epc, handlers, warnings, inflight, published,
                   finished, escaped, said, cfgVars, normVars, ttsVars>>

\* The session emits conversation_item_added.
EmitConversationItemAdded ==
    /\ Running
    /\ Len(events) < MaxEvents
    /\ \E e \in ItemEvents :
          /\ events' = Append(events, e)
          /\ ready' = IF e.name \in handlers
                      THEN on_conversation_item_added(e, Len(events) + 1, ready)
                      ELSE ready
    /\ UNCHANGED <<session, epc, handlers, warnings, inflight, published,
                   finished, escaped, said, cfgVars, normVars, ttsVars>>

\* The event loop starts the first waiting task: _send runs up to
\* await publish_data(payload, reliable=True).
StartSend ==
    /\ ready # <<>>
    /\ published' = Append(published, Head(ready))
    /\ inflight' = inflight \cup {Head(ready)}
    /\ ready' = Tail(ready)
    /\ UNCHANGED <<session, epc, handlers, warnings, events, finished, escaped,
                   said, cfgVars, normVars, ttsVars>>

\* publish_data returns: _send is through.
SendReturns ==
    /\ \E task \in inflight :
          /\ inflight' = inflight \ {task}
          /\ finished' = finished \cup {[ev |-> task.ev, ok |-> TRUE, at |-> 0]}
    /\ UNCHANGED <<session, epc, handlers, warnings, events, ready, published,
                   escaped, said, cfgVars, normVars, ttsVars>>

\* _send without its try: the exception of publish_data leaves the task.
SendRaisesUncaught ==
    /\ \E task \in inflight :
          /\ inflight' = inflight \ {task}
          /\ finished' = finished \cup {[ev |-> task.ev, ok |-> FALSE, at |-> Len(events)]}
    /\ escaped' = escaped \cup {"publish_data"}
    /\ UNCHANGED <<session, epc, handlers, warnings, events, ready, published,
                   said, cfgVars, normVars, ttsVars>>

\* publish_data raises an Exception: _send catches it and logs a warning.
SendRaises ==
    /\ \E task \in inflight :
          /\ inflight' = inflight \ {task}
          /\ finished' = finished \cup {[ev |-> task.ev, ok |-> FALSE, at |-> Len(events)]}
    /\ warnings' = Append(warnings, "publish_data failed")
    /\ UNCHANGED <<session, epc, handlers, events, ready, published,
                   escaped, said, cfgVars, normVars, ttsVars>>

BridgeNext ==
    \/ EntrypointSetup
    \/ SessionStarted
    \/ SessionStartRaises
    \/ SayReturns
    \/ SayRaises
    \/ EmitUserTranscribed
    \/ EmitConversationItemAdded
    \/ StartSend
    \/ SendReturns
    \/ SendRaises

SpecBridge == BridgeInit /\ [][BridgeNext]_vars

\* The text an event carries: its transcript, or the text_content of its item.
EventText(e) == IF e.message.kind = "none" THEN <<>> ELSE extract_text(e.message)

FinalTranscript(e) == e.name = "user_input_transcribed" /\ e.is_final
AssistantItem(e)   == e.name = "conversation_item_added" /\ e.role = "assistant"

Tasks == {ready[i] : i \in 1..Len(ready)} \cup {published[i] : i \in 1..Len(published)}

\* C2: every payload handed to a send task or to publish_data is an object
\* {role, text} whose text is the trimmed, non-empty text of the event that
\* caused it, with role candidate for a final transcript and interviewer for
\* an assistant item; other events and blank texts cause no task.
C2_OnlyTrimmedFinalTurns ==
    /\ \A task \in Tasks :
          LET read == json_loads(task.payload)
              role == DictGet(read.value, <<"role">>)
              text == DictGet(read.value, <<"text">>)
          IN  /\ task.ev \in 1..Len(events)
              /\ read.raised = "no"
              /\ read.value.type = "obj"
              /\ Len(read.value.items) = 2
              /\ role.type = "str"
              /\ text.type = "str"
              /\ text.text # <<>>
              /\ text.text = Strip(EventText(events[task.ev]))
              /\ \/ role.text = <<"candidate">> /\ FinalTranscript(events[task.ev])
                 \/ role.text = <<"interviewer">> /\ AssistantItem(events[task.ev])
    /\ \A i \in 1..Len(events) :
          (\/ ~(FinalTranscript(events[i]) \/ AssistantItem(events[i]))
           \/ Strip(EventText(events[i])) = <<>>)
          => \A task \in Tasks : task.ev # i

\* publish_data got a trimmed transcript after a blank or non-final event
\* went by unpublished.
C2_Witness ==
    /\ \E i \in 1..Len(published) :
          /\ published[i].ev > 1
          /\ published[i].payload
                # Payload("candidate", EventText(events[published[i].ev]))
          /\ FinalTranscript(events[published[i].ev])
    /\ Len(events) >= 2
    /\ events[1].name \in handlers
    /\ \/ ~(FinalTranscript(events[1]) \/ AssistantItem(events[1]))
       \/ Strip(EventText(events[1])) = <<>>

FailedSends == {f \in finished : ~f.ok}

PublishWarnings == SelectSeq(warnings, LAMBDA w : w = "publish_data failed")

\* What C6 asks of every step.
C6_Step ==
    /\ escaped' = {}
    /\ Len(events') > Len(events)
          => /\ published' = published
             /\ inflight' = inflight
             /\ finished' = finished
             /\ warnings' = warnings
             /\ epc' = epc
    /\ Len(PublishWarnings') = Cardinality(FailedSends')
    /\ epc # "dispatched" => handlers' = handlers
    /\ FailedSends' # FailedSends => (ready' = ready /\ epc' = epc)

\* C6: the step in which a handler runs creates at most a task: it calls no
\* publish_data, ends no send and logs nothing.  A send that fails logs one
\* warning, no exception leaves a handler or a task, the handlers stay
\* registered and the waiting tasks and entrypoint are left as they are.
C6_PublishIsolated == [][C6_Step]_vars

\* After a send failed, a later event was published.
C6_Witness ==
    \E f \in FailedSends : \E i \in 1..Len(published) : published[i].ev > f.at

\* C9 as claimed: when the session has no on, or an on raises, a warning is
\* logged, entrypoint goes on to session.start, and no transcript message
\* is submitted.
C9_NoPublishingWithoutRegistration ==
    (epc # "dispatched" /\ (~session.has_on \/ session.on_raises # {}))
    => /\ \E i \in 1..Len(warnings) :
             warnings[i] = "Failed to register transcript handlers"
       /\ epc \in {"starting", "saying", "done", "raised"}
       /\ ready = <<>>
       /\ published = <<>>

\* The second part of C9 alone: after a failed registration nothing is
\* handed to publish_data.  It fails when on raises for
\* conversation_item_added only: on_user_transcribed is registered by then.
C9_NothingPublishedAfterOnRaised ==
    (epc # "dispatched" /\ session.has_on /\ session.on_raises # {}) => published = <<>>

\* C10: publish_data is called in the order of the events: the calls made
\* are in event order, and no waiting task belongs to an earlier event than
\* a call already made or than a task waiting before it.
C10_SubmittedInEventOrder ==
    /\ \A i, j \in 1..Len(published) : i < j => published[i].ev < published[j].ev
    /\ \A i \in 1..Len(published) : \A j \in 1..Len(ready) :
          published[i].ev < ready[j].ev
    /\ \A i, j \in 1..Len(ready) : i < j => ready[i].ev < ready[j].ev

\* Two events of one handler were published while the send of the first was
\* still waiting in publish_data.
C10_Witness ==
    /\ Len(published) >= 2
    /\ events[published[1].ev].name = events[published[2].ev].name
    /\ published[1] \in inflight

=============================================================================
